---- MODULE Spec2Model ----
(***************************************************************************)
(* etcdfs: a FUSE filesystem whose operations are translated one-to-one    *)
(* into calls against an etcd (v2) key-value store.                        *)
(*                                                                         *)
(* Strings (paths, keys, values) are sequences of one-character strings,   *)
(* so that the Python string operations of the source (strip, join,        *)
(* replace, ljust, slicing) are computed character by character.           *)
(***************************************************************************)
EXTENDS Integers, Sequences, FiniteSets, TLC

VARIABLES basedir, store, pend, last, returned, refused

vars == <<basedir, store, pend, last, returned, refused>>

---------------------------------------------------------------------------
(* Bounds of the model.                                                    *)

\* largest byte offset a caller passes to read/write
MaxOffset == 1
\* largest size a caller passes to read
MaxSize == 2
\* largest length a caller passes to truncate
MaxLength == 2
\* longest path handed to the path/key mapping
MaxPathLen == 5

---------------------------------------------------------------------------
(* Python string operations.                                               *)

Min(a, b) == IF a < b THEN a ELSE b

\* str.lstrip(c)
RECURSIVE LStrip(_, _)
LStrip(s, c) == IF s # <<>> /\ Head(s) = c THEN LStrip(Tail(s), c) ELSE s

\* str.rstrip(c)
RECURSIVE RStrip(_, _)
RStrip(s, c) ==
  IF s # <<>> /\ s[Len(s)] = c THEN RStrip(SubSeq(s, 1, Len(s) - 1), c) ELSE s

\* str.strip(c)
Strip(s, c) == LStrip(RStrip(s, c), c)

\* s[i:j] for 0 <= i, 0 <= j
Slice(s, i, j) == SubSeq(s, i + 1, Min(j, Len(s)))

\* s[i:]
SliceFrom(s, i) == SubSeq(s, i + 1, Len(s))

\* a run of n copies of the byte c
Fill(c, n) == [k \in 1..n |-> c]

\* str.ljust(n): pad on the right with spaces up to length n
LJust(s, n) == IF Len(s) >= n THEN s ELSE s \o Fill(" ", n - Len(s))

\* str.find(old): 0-based index of the first occurrence, -1 when there is none
Find(s, old) ==
  LET hits == {i \in 0..(Len(s) - Len(old)) : SubSeq(s, i + 1, i + Len(old)) = old}
  IN  IF hits = {} THEN -1 ELSE CHOOSE i \in hits : \A j \in hits : i <= j

\* str.replace(old, "", 1): the first occurrence of old removed
ReplaceFirst(s, old) ==
  LET i == Find(s, old)
  IN  IF i < 0 THEN s ELSE SubSeq(s, 1, i) \o SubSeq(s, i + Len(old) + 1, Len(s))

\* posixpath.join(a, b)
PosixJoin(a, b) ==
  IF b # <<>> /\ Head(b) = "/" THEN b
  ELSE IF a = <<>> \/ a[Len(a)] = "/" THEN a \o b
  ELSE a \o <<"/">> \o b

---------------------------------------------------------------------------
(* Mount context and path/key mapping.                                     *)

\* EtcdFSOperations.__init__: self.basedir = "/%s" % basedir.strip("/")
InitBasedir(arg) == <<"/">> \o Strip(arg, "/")

\* EtcdFSOperations._path_to_key
path_to_key(path) == RStrip(PosixJoin(basedir, LStrip(path, "/")), "/")

\* key_to_path without the strip of the leading separators
key_to_path_no_lstrip(key, dirkey) ==
  LET dk == IF dirkey = <<"None">> \/ dirkey = <<>> THEN basedir ELSE dirkey
      rel == ReplaceFirst(key, dk)
  IN  IF rel = <<>> THEN <<"/">> ELSE rel

\* EtcdFSOperations._key_to_path; dirkey is None (<<"None">>) when not given
key_to_path(key, dirkey) ==
  LET dk == IF dirkey = <<"None">> \/ dirkey = <<>> THEN basedir ELSE dirkey
      rel == LStrip(ReplaceFirst(key, dk), "/")
  IN  IF rel = <<>> THEN <<"/">> ELSE rel

---------------------------------------------------------------------------
(* The store: etcd's v2 key space behind the python-etcd client.  A key is  *)
(* present in store iff it is in DOMAIN store; the root "/" is always a     *)
(* directory and is not stored.                                            *)

Root == <<"/">>

\* Python's None, as the value of a directory node or a missing key field
None == <<"None">>

\* a request for the key "" addresses the root
SanitizeKey(key) == IF key = <<>> \/ Head(key) # "/" THEN <<"/">> \o key ELSE key

\* 1-based positions of the separators of key
Seps(key) == {i \in 1..Len(key) : key[i] = "/"}

LastSep(key) == CHOOSE i \in Seps(key) : \A j \in Seps(key) : j <= i

ParentKey(key) == IF LastSep(key) = 1 THEN Root ELSE SubSeq(key, 1, LastSep(key) - 1)

\* the proper ancestors of key below the root
Ancestors(key) == {SubSeq(key, 1, i - 1) : i \in Seps(key) \ {1}}

ChildKeys(st, key) == {c \in DOMAIN st : ParentKey(c) = key}

IsDirAt(st, key) == key = Root \/ (key \in DOMAIN st /\ st[key].dir)

\* etcd error codes (the keys of ETCD_CODE_TO_ERRNO name them)
EcodeKeyNotFound == 100
EcodeTestFailed == 101
EcodeNotFile == 102
EcodeNotDir == 104
EcodeNodeExist == 105
EcodeRootROnly == 107
EcodeDirNotEmpty == 108
EcodeUnauthorized == 110
\* a store error the table does not list (raft internal error)
EcodeRaftInternal == 300

\* walking down to key: the error of the first ancestor that is no directory
WalkError(st, key) ==
  LET bad == {a \in Ancestors(key) : ~IsDirAt(st, a)}
      first == CHOOSE a \in bad : \A b \in bad : Len(a) <= Len(b)
  IN  IF bad = {} THEN 0
      ELSE IF first \in DOMAIN st THEN EcodeNotDir ELSE EcodeKeyNotFound

\* a node as the client returns it (EtcdResult); a directory has no value
NodeRepr(st, key) ==
  [key |-> key, dir |-> st[key].dir,
   value |-> IF st[key].dir THEN None ELSE st[key].value]

\* client.read(key): the node with its direct children, or an error code
EtcdRead(st, rawkey, rootkey) ==
  LET key == SanitizeKey(rawkey)
  IN  IF key = Root
        THEN [err |-> 0, key |-> rootkey, dir |-> TRUE, value |-> None,
              nodes |-> {NodeRepr(st, c) : c \in ChildKeys(st, Root)}]
      ELSE IF WalkError(st, key) # 0
        THEN [err |-> WalkError(st, key), key |-> None, dir |-> FALSE,
              value |-> None, nodes |-> {}]
      ELSE IF key \notin DOMAIN st
        THEN [err |-> EcodeKeyNotFound, key |-> None, dir |-> FALSE,
              value |-> None, nodes |-> {}]
      ELSE [err |-> 0, key |-> key, dir |-> st[key].dir,
            value |-> NodeRepr(st, key).value,
            nodes |-> IF st[key].dir
                        THEN {NodeRepr(st, c) : c \in ChildKeys(st, key)}
                        ELSE {}]

\* the store with key set to node n, missing ancestors created as directories
WithNode(st, key, n) ==
  LET new == (Ancestors(key) \ DOMAIN st) \cup {key}
  IN  [k \in DOMAIN st \cup new |->
         IF k = key THEN n
         ELSE IF k \in DOMAIN st THEN st[k]
         ELSE [dir |-> TRUE, value |-> <<>>]]

\* client.write(key, value, dir, prevExist): prevExist is "false" (create
\* only if absent) or "unset" (set unconditionally)
EtcdWrite(st, rawkey, value, dir, prevExist) ==
  LET key == SanitizeKey(rawkey)
      n == [dir |-> dir, value |-> IF dir THEN <<>> ELSE value]
  IN  IF key = Root THEN [err |-> EcodeRootROnly, store |-> st]
      ELSE IF \E a \in Ancestors(key) : a \in DOMAIN st /\ ~st[a].dir
        THEN [err |-> EcodeNotDir, store |-> st]
      ELSE IF key \in DOMAIN st /\ prevExist = "false"
        THEN [err |-> EcodeNodeExist, store |-> st]
      ELSE IF key \in DOMAIN st /\ st[key].dir
        THEN [err |-> EcodeNotFile, store |-> st]
      ELSE [err |-> 0, store |-> WithNode(st, key, n)]

\* client.delete(key, dir): never recursive
EtcdDelete(st, rawkey, dir) ==
  LET key == SanitizeKey(rawkey)
  IN  IF key = Root THEN [err |-> EcodeRootROnly, store |-> st]
      ELSE IF WalkError(st, key) # 0 THEN [err |-> WalkError(st, key), store |-> st]
      ELSE IF key \notin DOMAIN st THEN [err |-> EcodeKeyNotFound, store |-> st]
      ELSE IF st[key].dir /\ ~dir THEN [err |-> EcodeNotFile, store |-> st]
      ELSE IF st[key].dir /\ ChildKeys(st, key) # {}
        THEN [err |-> EcodeDirNotEmpty, store |-> st]
      ELSE [err |-> 0, store |-> [k \in DOMAIN st \ {key} |-> st[k]]]

\* EtcdResult.children: the leaves of the returned subtree; a node returned
\* without sub-nodes is its own only leaf
ResultChildren(res) ==
  IF res.nodes = {}
    THEN {[key |-> res.key, dir |-> res.dir, value |-> res.value]}
    ELSE res.nodes

\* a store call may also fail for reasons of the store's own: "nocode" is an
\* EtcdException whose payload carries no errorCode, "nopayload" one whose
\* payload attribute is None (the client raises it so when the failure did
\* not come with an error body, as for a connection failure), "raft" one
\* whose errorCode the translation table does not list, "unauthorized" the
\* refusal of a store that checks permissions
StoreFaults == {"none", "nocode", "nopayload", "raft", "unauthorized"}

\* the errorCode of an exception that carries none (payload.get(...) is None)
NoErrorCode == -1

\* stands for the errorCode of an exception whose payload is None
NoPayload == -2

FaultCode(f) ==
  CASE f = "raft" -> EcodeRaftInternal
    [] f = "unauthorized" -> EcodeUnauthorized
    [] f = "nopayload" -> NoPayload
    [] OTHER -> NoErrorCode

\* the client calls as the Bridge issues them, failing as fault f says
ClientRead(st, key, rootkey, f) ==
  IF f = "none" THEN EtcdRead(st, key, rootkey)
  ELSE [err |-> FaultCode(f), key |-> None, dir |-> FALSE, value |-> None,
        nodes |-> {}]

ClientWrite(st, key, value, dir, prevExist, f) ==
  IF f = "none" THEN EtcdWrite(st, key, value, dir, prevExist)
  ELSE [err |-> FaultCode(f), store |-> st]

ClientDelete(st, key, dir, f) ==
  IF f = "none" THEN EtcdDelete(st, key, dir)
  ELSE [err |-> FaultCode(f), store |-> st]

---------------------------------------------------------------------------
(* What a Bridge operation hands back to the caller: a return value, a     *)
(* FuseOSError(errno), a raw etcd.EtcdException(errorCode), or another     *)
(* Python exception.                                                       *)

Ok(r) == [kind |-> "ok", errno |-> "", code |-> 0, exc |-> "", ret |-> r]

FuseOSError(e) == [kind |-> "fuse", errno |-> e, code |-> 0, exc |-> "", ret |-> 0]

EtcdException(c) ==
  [kind |-> "etcd", errno |-> "", code |-> c, exc |-> "EtcdException", ret |-> 0]

PyError(name) == [kind |-> "python", errno |-> "", code |-> 0, exc |-> name, ret |-> 0]

\* Mapping of etcd error code to linux errno
ETCD_CODE_TO_ERRNO ==
  (EcodeKeyNotFound :> "ENOENT") @@ (EcodeTestFailed :> "EBADFD") @@
  (EcodeNotFile :> "EISDIR") @@ (EcodeNotDir :> "ENOTDIR") @@
  (EcodeNodeExist :> "EEXIST") @@ (EcodeRootROnly :> "EACCES") @@
  (EcodeDirNotEmpty :> "ENOTEMPTY") @@ (EcodeUnauthorized :> "EPERM")

\* the decorator: an EtcdException leaving the wrapped function becomes a
\* FuseOSError; anything else passes through.  payload.get on a payload that
\* is None is an AttributeError, raised from inside the except clause
handle_etcd_errors(out) ==
  IF out.kind = "etcd"
    THEN IF out.code = NoPayload THEN PyError("AttributeError")
         ELSE IF out.code # NoErrorCode /\ out.code # 0
           THEN IF out.code \in DOMAIN ETCD_CODE_TO_ERRNO
                  THEN FuseOSError(ETCD_CODE_TO_ERRNO[out.code])
                  ELSE FuseOSError("EINVAL")
           ELSE FuseOSError("EINVAL")
    ELSE out

---------------------------------------------------------------------------
(* Attribute synthesis.                                                    *)

\* the fixed permission mask of the mount (mode=0o600)
FileMode == 384

\* st_size of a directory
DirSize == 4096

\* EtcdFSOperations.etcd_node_to_stat (the store's version counters, which
\* feed st_ino and the three times, are not part of this model's store)
etcd_node_to_stat(node) ==
  IF node.dir
    THEN [st_fmt |-> "S_IFDIR", st_xusr |-> TRUE, st_perm |-> FileMode,
          st_nlink |-> 1, st_size |-> DirSize]
    ELSE [st_fmt |-> "S_IFREG", st_xusr |-> FALSE, st_perm |-> FileMode,
          st_nlink |-> 1, st_size |-> Len(node.value)]

---------------------------------------------------------------------------
(* The Bridge operations.  Each operator computes, from the store and the  *)
(* arguments, the outcome the caller sees, the store afterwards and the    *)
(* store calls issued.                                                     *)

\* raised is the error code of the store call that failed, 0 when none did
Done(out, st, calls, raised) ==
  [out |-> out, store |-> st, calls |-> calls, raised |-> raised]

\* EtcdFSOperations.create (not decorated: a store error leaves it raw)
create(st, path, f) ==
  LET key == path_to_key(path)
      w == ClientWrite(st, key, <<>>, FALSE, "false", f)
  IN  IF w.err # 0 THEN Done(EtcdException(w.err), w.store, <<"write">>, w.err)
      ELSE Done(Ok(0), w.store, <<"write">>, 0)

\* getattr answering for a missing key as for an empty file
getattr_lenient(st, path, f) ==
  LET key == path_to_key(path)
      res == ClientRead(st, key, Root, f)
  IN  IF res.err = EcodeKeyNotFound
        THEN Done(Ok(etcd_node_to_stat([dir |-> FALSE, value |-> <<>>])), st,
                  <<"read">>, 0)
      ELSE IF res.err # 0
        THEN Done(handle_etcd_errors(EtcdException(res.err)), st, <<"read">>, res.err)
      ELSE Done(Ok(etcd_node_to_stat(res)), st, <<"read">>, 0)

\* EtcdFSOperations.getattr
getattr(st, path, f) ==
  LET key == path_to_key(path)
      res == ClientRead(st, key, Root, f)
  IN  IF res.err # 0
        THEN Done(handle_etcd_errors(EtcdException(res.err)), st, <<"read">>, res.err)
      ELSE Done(Ok(etcd_node_to_stat(res)), st, <<"read">>, 0)

\* EtcdFSOperations.mkdir
mkdir(st, path, f) ==
  LET dirkey == path_to_key(path)
      w == ClientWrite(st, dirkey, None, TRUE, "false", f)
  IN  IF w.err # 0
        THEN Done(handle_etcd_errors(EtcdException(w.err)), w.store, <<"write">>, w.err)
      ELSE Done(Ok(0), w.store, <<"write">>, 0)

\* read slicing up to size instead of offset + size
read_to_size(st, path, size, offset, f) ==
  LET key == path_to_key(path)
      res == ClientRead(st, key, Root, f)
  IN  IF res.err # 0
        THEN Done(handle_etcd_errors(EtcdException(res.err)), st, <<"read">>, res.err)
      ELSE IF res.value = None
        THEN Done(handle_etcd_errors(PyError("TypeError")), st, <<"read">>, 0)
      ELSE Done(Ok(Slice(res.value, offset, size)), st, <<"read">>, 0)

\* EtcdFSOperations.read: slicing the value of a directory node (None) is a
\* TypeError
read(st, path, size, offset, f) ==
  LET key == path_to_key(path)
      res == ClientRead(st, key, Root, f)
  IN  IF res.err # 0
        THEN Done(handle_etcd_errors(EtcdException(res.err)), st, <<"read">>, res.err)
      ELSE IF res.value = None
        THEN Done(handle_etcd_errors(PyError("TypeError")), st, <<"read">>, 0)
      ELSE Done(Ok(Slice(res.value, offset, offset + size)), st, <<"read">>, 0)

\* EtcdFSOperations._ensure_dir
ensure_dir(node) == node.dir

\* EtcdFSOperations._ensure_key
ensure_key(node) == ~node.dir

\* readdir_names without the removal of the directory's key from the names
RECURSIVE readdir_names_echo(_, _)
readdir_names_echo(children, dirkey) ==
  IF children = <<>> THEN <<>>
  ELSE LET node == Head(children)
           rest == readdir_names_echo(Tail(children), dirkey)
       IN  IF node.key = None THEN rest
           ELSE LET key == LStrip(node.key, "/")
                IN  IF key = <<>> THEN rest
                    ELSE <<[name |-> key, attrs |-> etcd_node_to_stat(node)]>> \o rest

\* the loop of readdir over the children in the order the store lists them
RECURSIVE readdir_names(_, _)
readdir_names(children, dirkey) ==
  IF children = <<>> THEN <<>>
  ELSE LET node == Head(children)
           rest == readdir_names(Tail(children), dirkey)
       IN  IF node.key = None THEN rest
           ELSE IF RStrip(node.key, "/") = dirkey THEN rest
           ELSE LET key == LStrip(ReplaceFirst(node.key, dirkey), "/")
                IN  IF key = <<>> THEN rest
                    ELSE <<[name |-> key, attrs |-> etcd_node_to_stat(node)]>> \o rest

\* "." and "..", which readdir lists first and without attributes
DotEntries ==
  << [name |-> <<".">>, attrs |-> [st_fmt |-> "", st_xusr |-> FALSE, st_perm |-> 0,
                                    st_nlink |-> 0, st_size |-> 0]],
     [name |-> <<".", ".">>, attrs |-> [st_fmt |-> "", st_xusr |-> FALSE, st_perm |-> 0,
                                         st_nlink |-> 0, st_size |-> 0]] >>

\* the sequences that list each element of the set S once
Orders(S) == {o \in [1..Cardinality(S) -> S] : \A x \in S : \E i \in DOMAIN o : o[i] = x}

\* EtcdFSOperations.readdir; order is the order the store lists the children in
readdir(st, path, rootkey, order, f) ==
  LET dirkey == path_to_key(path)
      res == ClientRead(st, dirkey, rootkey, f)
  IN  IF res.err # 0
        THEN Done(handle_etcd_errors(EtcdException(res.err)), st, <<"read">>, res.err)
      ELSE IF ~ensure_dir(res)
        THEN Done(handle_etcd_errors(FuseOSError("ENOTDIR")), st, <<"read">>, 0)
      ELSE Done(Ok(DotEntries \o readdir_names(order, dirkey)), st, <<"read">>, 0)

\* rmdir deleting the key as a plain node
rmdir_plain(st, path, f) ==
  LET key == path_to_key(path)
      d == ClientDelete(st, key, FALSE, f)
  IN  IF d.err # 0
        THEN Done(handle_etcd_errors(EtcdException(d.err)), d.store, <<"delete">>, d.err)
      ELSE Done(Ok(0), d.store, <<"delete">>, 0)

\* EtcdFSOperations.rmdir
rmdir(st, path, f) ==
  LET key == path_to_key(path)
      d == ClientDelete(st, key, TRUE, f)
  IN  IF d.err # 0
        THEN Done(handle_etcd_errors(EtcdException(d.err)), d.store, <<"delete">>, d.err)
      ELSE Done(Ok(0), d.store, <<"delete">>, 0)

\* unlink deleting the key as a directory
unlink_dir(st, path, f) ==
  LET key == path_to_key(path)
      d == ClientDelete(st, key, TRUE, f)
  IN  IF d.err # 0
        THEN Done(handle_etcd_errors(EtcdException(d.err)), d.store, <<"delete">>, d.err)
      ELSE Done(Ok(0), d.store, <<"delete">>, 0)

\* EtcdFSOperations.unlink
unlink(st, path, f) ==
  LET key == path_to_key(path)
      d == ClientDelete(st, key, FALSE, f)
  IN  IF d.err # 0
        THEN Done(handle_etcd_errors(EtcdException(d.err)), d.store, <<"delete">>, d.err)
      ELSE Done(Ok(0), d.store, <<"delete">>, 0)

\* n copies of the string s, as Python's s * n
RECURSIVE RepeatStr(_, _)
RepeatStr(s, n) == IF n <= 0 THEN <<>> ELSE s \o RepeatStr(s, n - 1)

\* write_value with the bytes after the written range dropped
write_value_no_post(old_value, data, offset) ==
  LJust(Slice(old_value, 0, offset), offset) \o data

\* EtcdFSOperations.write, the value computed from the value read
write_value(old_value, data, offset) ==
  LET pre == LJust(Slice(old_value, 0, offset), offset)
      post == SliceFrom(old_value, offset + Len(data))
  IN  pre \o data \o post

\* EtcdFSOperations.write, the value computed when the key is not found
write_absent_value(data, offset) == RepeatStr(<<>>, offset) \o data

\* write_direct taking the update path: the value read keeps its tail
write_direct_update(st, path, data, f) ==
  LET key == path_to_key(path)
      res == ClientRead(st, key, Root, f)
      value == IF res.err = 0 /\ res.value # None
                 THEN data \o SliceFrom(res.value, Len(data))
                 ELSE data
      w == ClientWrite(st, key, value, FALSE, "unset", f)
  IN  IF w.err # 0
        THEN Done(handle_etcd_errors(EtcdException(w.err)), w.store,
                  <<"read", "write">>, w.err)
      ELSE Done(Ok(Len(data)), w.store, <<"read", "write">>, 0)

\* EtcdFSOperations.write with offset = 0: one store write, no read
write_direct(st, path, data, f) ==
  LET key == path_to_key(path)
      w == ClientWrite(st, key, data, FALSE, "unset", f)
  IN  IF w.err # 0
        THEN Done(handle_etcd_errors(EtcdException(w.err)), w.store, <<"write">>, w.err)
      ELSE Done(Ok(Len(data)), w.store, <<"write">>, 0)

\* write_read without the _ensure_key check, the value of a directory taken
\* as empty
write_read_no_ensure(st, path, data, offset, f) ==
  LET key == path_to_key(path)
      res == ClientRead(st, key, Root, f)
      old_value == IF res.value = None THEN <<>> ELSE res.value
  IN  IF res.err = EcodeKeyNotFound
        THEN [cont |-> TRUE, out |-> Ok(0), found |-> FALSE, old |-> <<>>,
              value |-> write_absent_value(data, offset), raised |-> 0]
      ELSE IF res.err # 0
        THEN [cont |-> FALSE, out |-> handle_etcd_errors(EtcdException(res.err)),
              found |-> FALSE, old |-> <<>>, value |-> <<>>, raised |-> res.err]
      ELSE [cont |-> TRUE, out |-> Ok(0), found |-> TRUE, old |-> old_value,
            value |-> write_value(old_value, data, offset), raised |-> 0]

\* EtcdFSOperations.write with offset # 0, up to the store write: either the
\* operation ends here (cont = FALSE) or value is what it goes on to write
write_read(st, path, data, offset, f) ==
  LET key == path_to_key(path)
      res == ClientRead(st, key, Root, f)
  IN  IF res.err = EcodeKeyNotFound
        THEN [cont |-> TRUE, out |-> Ok(0), found |-> FALSE, old |-> <<>>,
              value |-> write_absent_value(data, offset), raised |-> 0]
      ELSE IF res.err # 0
        THEN [cont |-> FALSE, out |-> handle_etcd_errors(EtcdException(res.err)),
              found |-> FALSE, old |-> <<>>, value |-> <<>>, raised |-> res.err]
      ELSE IF ~ensure_key(res)
        THEN [cont |-> FALSE, out |-> handle_etcd_errors(FuseOSError("EISDIR")),
              found |-> TRUE, old |-> None, value |-> <<>>, raised |-> 0]
      ELSE [cont |-> TRUE, out |-> Ok(0), found |-> TRUE, old |-> res.value,
            value |-> write_value(res.value, data, offset), raised |-> 0]

\* write_store as a compare-and-swap on the value read
write_store_cas(st, frame, f) ==
  LET key == path_to_key(frame.path)
      data == frame.data
      stale == frame.found /\ key \in DOMAIN st /\ st[key].value # frame.old
      w == IF stale THEN [err |-> EcodeTestFailed, store |-> st]
           ELSE ClientWrite(st, key, frame.value, FALSE, "unset", f)
  IN  IF w.err # 0
        THEN Done(handle_etcd_errors(EtcdException(w.err)), w.store,
                  <<"read", "write">>, w.err)
      ELSE Done(Ok(Len(data)), w.store, <<"read", "write">>, 0)

\* EtcdFSOperations.write, the store write that ends it; frame holds the
\* locals of the call (path, data, offset, value)
write_store(st, frame, f) ==
  LET key == path_to_key(frame.path)
      data == frame.data
      w == ClientWrite(st, key, frame.value, FALSE, "unset", f)
  IN  IF w.err # 0
        THEN Done(handle_etcd_errors(EtcdException(w.err)), w.store,
             <<"read", "write">>, w.err)
      ELSE Done(Ok(Len(data)), w.store, <<"read", "write">>, 0)

\* truncate_value that only ever cuts
truncate_value_no_pad(value, length) == Slice(value, 0, length)

\* EtcdFSOperations.truncate, the value computed from the value read
truncate_value(value, length) ==
  IF Len(value) > length THEN Slice(value, 0, length) ELSE LJust(value, length)

\* truncate_read without the return on equal lengths
truncate_read_always(st, path, length, f) ==
  LET key == path_to_key(path)
      res == ClientRead(st, key, Root, f)
  IN  IF res.err # 0
        THEN [cont |-> FALSE, out |-> EtcdException(res.err),
              found |-> FALSE, old |-> <<>>, value |-> <<>>, raised |-> res.err]
      ELSE IF res.value = None
        THEN [cont |-> FALSE, out |-> PyError("TypeError"),
              found |-> TRUE, old |-> None, value |-> <<>>, raised |-> 0]
      ELSE [cont |-> TRUE, out |-> Ok(0), found |-> TRUE, old |-> res.value,
            value |-> truncate_value(res.value, length), raised |-> 0]

\* EtcdFSOperations.truncate up to the store write (not decorated); len() of
\* the value of a directory node (None) is a TypeError
truncate_read(st, path, length, f) ==
  LET key == path_to_key(path)
      res == ClientRead(st, key, Root, f)
  IN  IF res.err # 0
        THEN [cont |-> FALSE, out |-> EtcdException(res.err),
              found |-> FALSE, old |-> <<>>, value |-> <<>>, raised |-> res.err]
      ELSE IF res.value = None
        THEN [cont |-> FALSE, out |-> PyError("TypeError"),
              found |-> TRUE, old |-> None, value |-> <<>>, raised |-> 0]
      ELSE IF Len(res.value) = length
        THEN [cont |-> FALSE, out |-> Ok(0),
              found |-> TRUE, old |-> res.value, value |-> res.value, raised |-> 0]
      ELSE [cont |-> TRUE, out |-> Ok(0), found |-> TRUE, old |-> res.value,
            value |-> truncate_value(res.value, length), raised |-> 0]

\* EtcdFSOperations.truncate, the store write that ends it; frame holds the
\* locals of the call (path, length, new_value)
truncate_store(st, frame, f) ==
  LET key == path_to_key(frame.path)
      w == ClientWrite(st, key, frame.value, FALSE, "unset", f)
  IN  IF w.err # 0 THEN Done(EtcdException(w.err), w.store, <<"read", "write">>, w.err)
      ELSE Done(Ok(0), w.store, <<"read", "write">>, 0)

\* the operations without a store call: chmod, chown, getxattr, link,
\* mknode, readlink, removexattr, setxattr and symlink raise ENOTSUP;
\* listxattr returns the empty list
NoStoreOps ==
  {"chmod", "chown", "getxattr", "listxattr", "setxattr", "removexattr",
   "link", "symlink", "readlink", "mknode"}

no_store_op(st, name) ==
  IF name = "listxattr" THEN Done(Ok(<<>>), st, <<>>, 0)
  ELSE Done(FuseOSError("ENOTSUP"), st, <<>>, 0)

---------------------------------------------------------------------------
(* Inputs.                                                                 *)

\* the basedir arguments a mount is made with
BaseDirArgs == { <<"/">>, <<"/", "m", "/">> }

\* the paths callers pass to getattr and readdir
Paths == { <<"/">>, <<"/", "a">>, <<"/", "a", "/", "b">>, <<"/", "b">> }

\* the paths callers create, remove, read and write: the host never
\* dispatches these for the mount point itself
NodePaths == Paths \ { <<"/">> }

\* the paths callers read, write and truncate
DataPaths == { <<"/", "a">>, <<"/", "a", "/", "b">> }

\* the data buffers callers write
Datas == { <<"x">>, <<"x", "y">> }

\* how the store presents the key of its root node
RootKeys == { None, Root }

EmptyStore == [k \in {} |-> [dir |-> TRUE, value |-> <<>>]]

\* the store a mount starts on: the base key is present and a directory
BaseStore(base) ==
  IF base = Root THEN EmptyStore ELSE WithNode(EmptyStore, base, [dir |-> TRUE, value |-> <<>>])

---------------------------------------------------------------------------
(* State: the mount's base key, the store, each caller's operation in      *)
(* progress (between the store read and the store write of a write or a    *)
(* truncate), and three records of what has happened: the operation that   *)
(* completed last (none once a caller has begun another; again marks the   *)
(* rmdir of a directory on record as refused), what each caller            *)
(* got back from its own last operation, and the directory whose removal   *)
(* was last refused as not empty.                                          *)

Idle ==
  [op |-> "idle", path |-> <<>>, data |-> <<>>, offset |-> 0, length |-> 0,
   found |-> FALSE, old |-> <<>>, value |-> <<>>]

NoOp ==
  [op |-> "none", caller |-> 0, path |-> <<>>, data |-> <<>>, offset |-> 0,
   size |-> 0, length |-> 0, found |-> FALSE, old |-> <<>>, value |-> <<>>,
   pre |-> EmptyStore, out |-> Ok(0), calls |-> <<>>, fault |-> "none",
   raised |-> 0, again |-> FALSE]

NoReturn == [op |-> "none", path |-> <<>>, data |-> <<>>, offset |-> 0, kind |-> ""]

Returned(rec) ==
  [op |-> rec.op, path |-> rec.path, data |-> rec.data, offset |-> rec.offset,
   kind |-> rec.out.kind]

\* the directory key whose removal is on record as refused, after rec
Refused(rec, st) ==
  IF rec.op = "rmdir" /\ rec.out = FuseOSError("ENOTEMPTY") THEN path_to_key(rec.path)
  ELSE IF refused \in DOMAIN st THEN refused
  ELSE None

InitWith(callers) ==
  /\ basedir \in {InitBasedir(a) : a \in BaseDirArgs}
  /\ store = BaseStore(basedir)
  /\ pend = [c \in callers |-> Idle]
  /\ last = NoOp
  /\ returned = [c \in callers |-> NoReturn]
  /\ refused = None

Init == InitWith({1})

\* the operation rec of caller c ends, leaving the store st
Ends(c, rec, st) ==
  /\ store' = st
  /\ last' = [rec EXCEPT !.again = (rec.op = "rmdir" /\ refused = path_to_key(rec.path))]
  /\ returned' = [returned EXCEPT ![c] = Returned(rec)]
  /\ refused' = Refused(rec, st)
  /\ UNCHANGED basedir

\* a single-call operation of caller c completes with result r
Complete(c, rec, f, r) ==
  /\ pend[c].op = "idle"
  /\ Ends(c, [rec EXCEPT !.caller = c, !.pre = store, !.out = r.out, !.calls = r.calls,
                         !.fault = f, !.raised = r.raised], r.store)
  /\ UNCHANGED pend

Create(c, path, f) ==
  Complete(c, [NoOp EXCEPT !.op = "create", !.path = path], f, create(store, path, f))

Getattr(c, path, f) ==
  Complete(c, [NoOp EXCEPT !.op = "getattr", !.path = path], f,
           getattr(store, path, f))

Mkdir(c, path, f) ==
  Complete(c, [NoOp EXCEPT !.op = "mkdir", !.path = path], f, mkdir(store, path, f))

Read(c, path, size, offset, f) ==
  Complete(c, [NoOp EXCEPT !.op = "read", !.path = path, !.size = size,
                           !.offset = offset], f,
           read(store, path, size, offset, f))

Readdir(c, path, rk, f) ==
  \E order \in Orders(ResultChildren(ClientRead(store, path_to_key(path), rk, f))) :
    Complete(c, [NoOp EXCEPT !.op = "readdir", !.path = path], f,
             readdir(store, path, rk, order, f))

Rmdir(c, path, f) ==
  Complete(c, [NoOp EXCEPT !.op = "rmdir", !.path = path], f, rmdir(store, path, f))

Unlink(c, path, f) ==
  Complete(c, [NoOp EXCEPT !.op = "unlink", !.path = path], f, unlink(store, path, f))

WriteDirect(c, path, data, f) ==
  Complete(c, [NoOp EXCEPT !.op = "write", !.path = path, !.data = data], f,
           write_direct(store, path, data, f))

\* the first half of a two-call operation: it ends here, or stays in progress
Begin(c, rec, f, r) ==
  /\ pend[c].op = "idle"
  /\ IF r.cont
       THEN /\ pend' = [pend EXCEPT ![c] =
                          [op |-> rec.op, path |-> rec.path, data |-> rec.data,
                           offset |-> rec.offset, length |-> rec.length,
                           found |-> r.found, old |-> r.old, value |-> r.value]]
            /\ last' = NoOp
            /\ returned' = [returned EXCEPT ![c] = NoReturn]
            /\ UNCHANGED <<basedir, store, refused>>
       ELSE /\ Ends(c, [rec EXCEPT !.caller = c, !.pre = store, !.out = r.out,
                                   !.found = r.found, !.old = r.old,
                                   !.value = r.value, !.calls = <<"read">>,
                                   !.fault = f, !.raised = r.raised], store)
            /\ UNCHANGED pend

\* the second half: the store write
Finish(c, f, r) ==
  /\ Ends(c, [NoOp EXCEPT !.op = pend[c].op, !.caller = c, !.path = pend[c].path,
                          !.data = pend[c].data, !.offset = pend[c].offset,
                          !.length = pend[c].length, !.found = pend[c].found,
                          !.old = pend[c].old, !.value = pend[c].value,
                          !.pre = store, !.out = r.out, !.calls = r.calls,
                          !.fault = f, !.raised = r.raised], r.store)
  /\ pend' = [pend EXCEPT ![c] = Idle]

WriteRead(c, path, data, offset, f) ==
  /\ offset # 0
  /\ Begin(c, [NoOp EXCEPT !.op = "write", !.path = path, !.data = data,
                           !.offset = offset], f,
           write_read(store, path, data, offset, f))

WriteStore(c, f) ==
  /\ pend[c].op = "write"
  /\ Finish(c, f, write_store(store, pend[c], f))

TruncateRead(c, path, length, f) ==
  Begin(c, [NoOp EXCEPT !.op = "truncate", !.path = path, !.length = length], f,
        truncate_read(store, path, length, f))

TruncateStore(c, f) ==
  /\ pend[c].op = "truncate"
  /\ Finish(c, f, truncate_store(store, pend[c], f))

\* the callers of the mount
Callers == DOMAIN pend

---------------------------------------------------------------------------
(* Spec: one caller, every operation, a store that fails only as its keys  *)
(* make it fail.                                                           *)

CreateOp == \E c \in Callers, path \in NodePaths : Create(c, path, "none")

GetattrOp == \E c \in Callers, path \in Paths : Getattr(c, path, "none")

MkdirOp == \E c \in Callers, path \in NodePaths : Mkdir(c, path, "none")

ReadOp ==
  \E c \in Callers, path \in DataPaths, size \in 0..MaxSize, offset \in 0..MaxOffset :
    Read(c, path, size, offset, "none")

ReaddirOp == \E c \in Callers, path \in Paths, rk \in RootKeys : Readdir(c, path, rk, "none")

RmdirOp == \E c \in Callers, path \in NodePaths : Rmdir(c, path, "none")

UnlinkOp == \E c \in Callers, path \in NodePaths : Unlink(c, path, "none")

WriteDirectOp ==
  \E c \in Callers, path \in DataPaths, data \in Datas : WriteDirect(c, path, data, "none")

WriteReadOp ==
  \E c \in Callers, path \in DataPaths, data \in Datas, offset \in 1..MaxOffset :
    WriteRead(c, path, data, offset, "none")

WriteStoreOp == \E c \in Callers : WriteStore(c, "none")

TruncateReadOp ==
  \E c \in Callers, path \in DataPaths, length \in 0..MaxLength :
    TruncateRead(c, path, length, "none")

TruncateStoreOp == \E c \in Callers : TruncateStore(c, "none")

Next ==
  \/ CreateOp
  \/ GetattrOp
  \/ MkdirOp
  \/ ReadOp
  \/ ReaddirOp
  \/ RmdirOp
  \/ UnlinkOp
  \/ WriteDirectOp
  \/ WriteReadOp
  \/ WriteStoreOp
  \/ TruncateReadOp
  \/ TruncateStoreOp

Spec == Init /\ [][Next]_vars

---------------------------------------------------------------------------
(* SpecRace: two callers writing at offsets > 0 into one file, their store *)
(* reads and store writes interleaving freely.                             *)

\* the file both callers write
RacePath == <<"/", "a">>

\* what caller c writes, so that the bytes of each can be told apart
RaceData(c) == IF c = 1 THEN <<"x">> ELSE <<"y">>

InitRace ==
  /\ basedir \in {InitBasedir(a) : a \in BaseDirArgs}
  /\ store = WithNode(BaseStore(basedir), path_to_key(RacePath),
                      [dir |-> FALSE, value |-> <<>>])
  /\ pend = [c \in {1, 2} |-> Idle]
  /\ last = NoOp
  /\ returned = [c \in {1, 2} |-> NoReturn]
  /\ refused = None

RaceWriteRead ==
  \E c \in Callers, offset \in 1..(MaxOffset + 1) :
    WriteRead(c, RacePath, RaceData(c), offset, "none")

RaceWriteStore == \E c \in Callers : WriteStore(c, "none")

NextRace == RaceWriteRead \/ RaceWriteStore

SpecRace == InitRace /\ [][NextRace]_vars

---------------------------------------------------------------------------
(* SpecNoStore: the operations without a store call, on every store that   *)
(* create and mkdir build.                                                 *)

NoStoreOp ==
  \E c \in Callers, name \in NoStoreOps, path \in Paths :
    Complete(c, [NoOp EXCEPT !.op = name, !.path = path], "none",
             no_store_op(store, name))

NextNoStore == NoStoreOp \/ CreateOp \/ MkdirOp

SpecNoStore == Init /\ [][NextNoStore]_vars

---------------------------------------------------------------------------
(* SpecPath: the path/key mapping applied to every short absolute path,    *)
(* redundant and trailing separators included, under three base keys.      *)

\* the basedir arguments of SpecPath: the root, one with and one without
\* surrounding separators
PathBaseDirArgs == BaseDirArgs \cup { <<"a">> }

\* the absolute paths of at most MaxPathLen characters over "/" and "a"
PathInputs ==
  {p \in UNION {[1..n -> {"/", "a"}] : n \in 1..MaxPathLen} : p[1] = "/"}

InitPath ==
  /\ basedir \in {InitBasedir(a) : a \in PathBaseDirArgs}
  /\ store = BaseStore(basedir)
  /\ pend = [c \in {1} |-> Idle]
  /\ last = NoOp
  /\ returned = [c \in {1} |-> NoReturn]
  /\ refused = None

\* _path_to_key(path)
PathToKeyOp ==
  \E path \in PathInputs :
    /\ last' = [NoOp EXCEPT !.op = "path_to_key", !.path = path,
                            !.value = path_to_key(path)]
    /\ UNCHANGED <<basedir, store, pend, returned, refused>>

\* _key_to_path(key) of the key just computed
KeyToPathOp ==
  /\ last.op = "path_to_key"
  /\ last' = [NoOp EXCEPT !.op = "key_to_path", !.path = last.path,
                          !.old = last.value,
                          !.value = key_to_path(last.value, None)]
  /\ UNCHANGED <<basedir, store, pend, returned, refused>>

NextPath == PathToKeyOp \/ KeyToPathOp

SpecPath == InitPath /\ [][NextPath]_vars

---------------------------------------------------------------------------
(* SpecFaults: one caller, every store operation on one path, each store   *)
(* call failing or not as the store and the connection to it decide.       *)

\* the path the operations of SpecFaults are given
FaultPath == <<"/", "a">>

\* the data written in SpecFaults
FaultData == <<"x">>

FaultCreateOp == \E c \in Callers, f \in StoreFaults : Create(c, FaultPath, f)

FaultGetattrOp == \E c \in Callers, f \in StoreFaults : Getattr(c, FaultPath, f)

FaultMkdirOp == \E c \in Callers, f \in StoreFaults : Mkdir(c, FaultPath, f)

FaultReadOp ==
  \E c \in Callers, offset \in 0..MaxOffset, f \in StoreFaults :
    Read(c, FaultPath, MaxSize, offset, f)

FaultReaddirOp == \E c \in Callers, f \in StoreFaults : Readdir(c, FaultPath, Root, f)

FaultRmdirOp == \E c \in Callers, f \in StoreFaults : Rmdir(c, FaultPath, f)

FaultUnlinkOp == \E c \in Callers, f \in StoreFaults : Unlink(c, FaultPath, f)

FaultWriteDirectOp ==
  \E c \in Callers, f \in StoreFaults : WriteDirect(c, FaultPath, FaultData, f)

FaultWriteReadOp ==
  \E c \in Callers, offset \in 1..MaxOffset, f \in StoreFaults :
    WriteRead(c, FaultPath, FaultData, offset, f)

FaultWriteStoreOp == \E c \in Callers, f \in StoreFaults : WriteStore(c, f)

FaultTruncateReadOp ==
  \E c \in Callers, length \in 0..MaxLength, f \in StoreFaults :
    TruncateRead(c, FaultPath, length, f)

FaultTruncateStoreOp == \E c \in Callers, f \in StoreFaults : TruncateStore(c, f)

NextFaults ==
  \/ FaultCreateOp
  \/ FaultGetattrOp
  \/ FaultMkdirOp
  \/ FaultReadOp
  \/ FaultReaddirOp
  \/ FaultRmdirOp
  \/ FaultUnlinkOp
  \/ FaultWriteDirectOp
  \/ FaultWriteReadOp
  \/ FaultWriteStoreOp
  \/ FaultTruncateReadOp
  \/ FaultTruncateStoreOp

SpecFaults == Init /\ [][NextFaults]_vars

---------------------------------------------------------------------------
(* What the claims are stated in.                                          *)

\* the store key of the operation that completed last
LastKey == SanitizeKey(path_to_key(last.path))

Present(st, key) == key = Root \/ key \in DOMAIN st

IsFileAt(st, key) == key \in DOMAIN st /\ ~st[key].dir

\* the store accepts a write of a file at key: no node in the way
Writable(st, key) ==
  /\ key # Root
  /\ \A a \in Ancestors(key) : a \in DOMAIN st => st[a].dir
  /\ key \in DOMAIN st => ~st[key].dir

Max(a, b) == IF a > b THEN a ELSE b

\* the translation table as the specification gives it
SpecErrno(code) ==
  CASE code = 100 -> "ENOENT"
    [] code = 101 -> "EBADFD"
    [] code = 102 -> "EISDIR"
    [] code = 104 -> "ENOTDIR"
    [] code = 105 -> "EEXIST"
    [] code = 107 -> "EACCES"
    [] code = 108 -> "ENOTEMPTY"
    [] code = 110 -> "EPERM"
    [] OTHER -> "EINVAL"

\* v with data laid over it at offset, the gap (if any) filled with spaces
Overlay(v, data, offset) ==
  [i \in 1..Max(Len(v), offset + Len(data)) |->
     IF i > offset /\ i <= offset + Len(data) THEN data[i - offset]
     ELSE IF i <= Len(v) THEN v[i]
     ELSE " "]

\* v cut or space-padded to exactly n bytes
Resized(v, n) == [i \in 1..n |-> IF i <= Len(v) THEN v[i] ELSE " "]

\* the last component of a key
BaseName(key) == SubSeq(key, LastSep(key) + 1, Len(key))

---------------------------------------------------------------------------
(* The claims.                                                             *)

\* C1: create on a key that already holds a node (file or directory) fails
\* with EEXIST and leaves the store unchanged; on an absent key (under
\* directories) it leaves an empty file there and returns the handle 0.
C1_CreateExclusive ==
  last.op = "create" /\ last.fault = "none" =>
    IF Present(last.pre, LastKey)
      THEN last.out = FuseOSError("EEXIST") /\ store = last.pre
      ELSE Writable(last.pre, LastKey) =>
             /\ last.out = Ok(0)
             /\ IsFileAt(store, LastKey)
             /\ store[LastKey].value = <<>>

\* C2: whenever a store call of a Bridge operation raises a store error, the
\* caller sees the filesystem error the translation table assigns to its
\* code, never the raw store exception.
C2_StoreErrorsTranslated ==
  /\ last.out.kind # "etcd"
  /\ last.raised # 0 => last.out = FuseOSError(SpecErrno(last.raised))

\* C3: read on a directory fails with EISDIR, whatever the size and offset.
C3_ReadDirectoryIsDir ==
  last.op = "read" /\ last.fault = "none" /\ IsDirAt(last.pre, LastKey) =>
    last.out = FuseOSError("EISDIR")

\* C4: a successful write at offset > 0 to a key that does not exist stores
\* offset spaces followed by data.
C4_WriteAbsentPads ==
  last.op = "write" /\ last.offset > 0 /\ ~last.found /\ last.out.kind = "ok" =>
    /\ IsFileAt(store, LastKey)
    /\ store[LastKey].value = Fill(" ", last.offset) \o last.data
    /\ Len(store[LastKey].value) = last.offset + Len(last.data)

\* C5: a successful write at offset > 0 to a file whose value was read as v
\* stores v[0, offset) space-padded to offset, then data, then
\* v[offset + len(data), len(v)), and returns len(data); when offset > len(v)
\* a read of [len(v), offset) then returns only spaces.
C5_WriteOverlay ==
  last.op = "write" /\ last.offset > 0 /\ last.found /\ last.out.kind = "ok" =>
    /\ IsFileAt(store, LastKey)
    /\ store[LastKey].value = Overlay(last.old, last.data, last.offset)
    /\ last.out.ret = Len(last.data)
    /\ last.offset > Len(last.old) =>
         read(store, last.path, last.offset - Len(last.old), Len(last.old), "none").out
           = Ok(Fill(" ", last.offset - Len(last.old)))

\* a write at offset 1 into a longer value: all three parts are there
C5_Witness ==
  /\ last.op = "write" /\ last.offset > 0 /\ last.found /\ last.out.kind = "ok"
  /\ Len(last.old) > last.offset + Len(last.data)

\* C6: a write at offset 0 issues no store read and, where the key is absent
\* or a file (of any length), replaces the value with exactly data; a read of
\* [0, len(data)) then returns data.
C6_WriteReplaces ==
  last.op = "write" /\ last.offset = 0 =>
    /\ last.calls = <<"write">>
    /\ last.fault = "none" /\ Writable(last.pre, LastKey) =>
         /\ last.out = Ok(Len(last.data))
         /\ IsFileAt(store, LastKey)
         /\ store[LastKey].value = last.data
         /\ read(store, last.path, Len(last.data), 0, "none").out = Ok(last.data)

\* a write at offset 0 over a longer value
C6_Witness ==
  /\ last.op = "write" /\ last.offset = 0 /\ last.out.kind = "ok"
  /\ IsFileAt(last.pre, LastKey)
  /\ Len(last.pre[LastKey].value) > Len(last.data)

\* C7: truncate(path, n) of a file with value v, followed by read(path, n, 0),
\* returns exactly n bytes: v cut to n, or v followed by spaces up to n.
C7_TruncateThenRead ==
  last.op = "truncate" /\ last.found /\ last.old # None /\ last.fault = "none" =>
    /\ last.out = Ok(0)
    /\ read(store, last.path, last.length, 0, "none").out
         = Ok(Resized(last.old, last.length))

\* a truncate that extends a non-empty value
C7_Witness ==
  /\ last.op = "truncate" /\ last.found /\ last.old # None /\ last.out.kind = "ok"
  /\ last.old # <<>>
  /\ last.length > Len(last.old)

\* C8: nothing orders the store read and the store write of one caller's
\* offset write against another caller's: the store write always goes
\* through, and it stores the value computed from the writer's own read,
\* whatever the key holds by then.  So both writes can return success while
\* the bytes of one are gone.
C8_LastWriterWins ==
  /\ \A c \in Callers :
       pend[c].op = "write" /\ IsFileAt(store, path_to_key(pend[c].path)) =>
         /\ write_store(store, pend[c], "none").out = Ok(Len(pend[c].data))
         /\ write_store(store, pend[c], "none").store[path_to_key(pend[c].path)].value
              = Overlay(pend[c].old, pend[c].data, pend[c].offset)
  /\ last.op = "write" /\ last.offset > 0 /\ last.found =>
       /\ last.out = Ok(Len(last.data))
       /\ store[LastKey].value = Overlay(last.old, last.data, last.offset)

\* both callers' writes succeeded, at ranges that do not overlap, the second
\* from a read made before the first was stored: the first one's bytes are
\* not in the value
C8_Witness ==
  \E c \in Callers, d \in Callers :
    /\ c # d
    /\ last.op = "write" /\ last.caller = d /\ last.out.kind = "ok"
    /\ returned[c].op = "write" /\ returned[c].kind = "ok"
    /\ returned[d].op = "write" /\ returned[d].kind = "ok"
    /\ returned[c].path = returned[d].path
    /\ returned[c].offset + Len(returned[c].data) <= returned[d].offset
    /\ last.old # last.pre[LastKey].value
    /\ \A i \in 1..Len(store[LastKey].value) :
         store[LastKey].value[i] # returned[c].data[1]

\* C9: rmdir of a directory with a child fails with ENOTEMPTY and leaves the
\* store as it was; rmdir of a directory without children removes its key and
\* nothing else, and this is what a further rmdir does to a directory that
\* was refused, once its children are gone.
C9_RmdirNeedsEmpty ==
  /\ last.op = "rmdir" /\ last.fault = "none" /\ LastKey # Root
       /\ IsDirAt(last.pre, LastKey) =>
       IF ChildKeys(last.pre, LastKey) # {}
         THEN last.out = FuseOSError("ENOTEMPTY") /\ store = last.pre
         ELSE /\ last.out = Ok(0)
              /\ store = [k \in DOMAIN last.pre \ {LastKey} |-> last.pre[k]]
  /\ \A path \in NodePaths :
       /\ refused = path_to_key(path)
       /\ IsDirAt(store, refused)
       /\ ChildKeys(store, refused) = {}
       => /\ rmdir(store, path, "none").out = Ok(0)
          /\ refused \notin DOMAIN rmdir(store, path, "none").store

\* the rmdir of a directory that was refused before succeeds
C9_Witness ==
  /\ last.op = "rmdir" /\ last.again /\ last.out = Ok(0)
  /\ LastKey \notin DOMAIN store

\* C10: readdir of a directory lists ".", ".." and then exactly one entry per
\* direct child, named by the child's key relative to the directory and
\* typed as the child is; nothing else is listed and no child is missing.
C10_ReaddirLists ==
  last.op = "readdir" /\ last.fault = "none" /\ IsDirAt(last.pre, LastKey) =>
    /\ last.out.kind = "ok"
    /\ Len(last.out.ret) = 2 + Cardinality(ChildKeys(store, LastKey))
    /\ last.out.ret[1].name = <<".">>
    /\ last.out.ret[2].name = <<".", ".">>
    /\ { [name |-> last.out.ret[i].name, fmt |-> last.out.ret[i].attrs.st_fmt] :
           i \in 3..Len(last.out.ret) }
         = { [name |-> BaseName(c),
              fmt |-> IF store[c].dir THEN "S_IFDIR" ELSE "S_IFREG"] :
               c \in ChildKeys(store, LastKey) }

\* a listing of a directory that holds a file and a directory
C10_Witness ==
  /\ last.op = "readdir" /\ last.out.kind = "ok"
  /\ \E c \in ChildKeys(store, LastKey) : store[c].dir
  /\ \E c \in ChildKeys(store, LastKey) : ~store[c].dir

\* C11: chmod, chown, getxattr, listxattr, setxattr, removexattr, link,
\* symlink, readlink and the creation of a device node report ENOTSUP for
\* every argument and issue no store call.
C11_NoStoreOpsNotSupported ==
  last.op \in NoStoreOps =>
    /\ last.out = FuseOSError("ENOTSUP")
    /\ last.calls = <<>>
    /\ store = last.pre

\* the absolute path p with runs of separators collapsed and no trailing
\* separator ("/" for the root)
RECURSIVE Collapse(_)
Collapse(p) ==
  IF Len(p) < 2 THEN p
  ELSE IF p[1] = "/" /\ p[2] = "/" THEN Collapse(Tail(p))
  ELSE <<p[1]>> \o Collapse(Tail(p))

Normalize(p) ==
  IF RStrip(Collapse(p), "/") = <<>> THEN <<"/">> ELSE RStrip(Collapse(p), "/")

\* C12: for every base key, the root included, path_to_key("/") is the base
\* key itself; for every other path the key is the base key joined with the
\* path, and it has no trailing separator.
C12_PathToKey ==
  last.op = "path_to_key" =>
    IF last.path = <<"/">>
      THEN last.value = basedir
      ELSE /\ last.value
                = RStrip(RStrip(basedir, "/") \o <<"/">> \o LStrip(last.path, "/"), "/")
           /\ last.value # <<>> => last.value[Len(last.value)] # "/"

\* C13 as stated: key_to_path(path_to_key(p)) is p normalized, an absolute
\* path with runs of separators collapsed and no trailing separator.
C13_RoundTripNormalizes ==
  last.op = "key_to_path" => last.value = Normalize(last.path)

\* C13, amended: key_to_path(path_to_key(p)) is p without its leading and
\* trailing separators, a path relative to the mount with its inner
\* separators as given, and "/" when nothing remains.
C13_RoundTripRelative ==
  last.op = "key_to_path" =>
    /\ last.old = path_to_key(last.path)
    /\ last.value = IF Strip(last.path, "/") = <<>> THEN <<"/">>
                    ELSE Strip(last.path, "/")

\* a round trip of a path with a doubled and a trailing separator, under a
\* base key other than the root
C13_Witness ==
  /\ last.op = "key_to_path"
  /\ basedir # Root
  /\ last.path[Len(last.path)] = "/"
  /\ \E i \in 2..(Len(last.path) - 2) :
       last.path[i] = "a" /\ last.path[i + 1] = "/" /\ last.path[i + 2] = "/"
  /\ last.value # <<"/">>

\* some node on the way down to key is a file
ThroughFile(st, key) == \E a \in Ancestors(key) : IsFileAt(st, a)

\* the operations that only read the store
ReadingOps == {"read", "getattr", "readdir"}

\* C14 as stated: read, getattr and readdir on a path whose key is not in
\* the store fail with ENOENT and leave the store unchanged.
C14_AbsentIsNoEntry ==
  last.op \in ReadingOps /\ last.fault = "none" /\ ~Present(last.pre, LastKey) =>
    /\ last.out = FuseOSError("ENOENT")
    /\ store = last.pre

\* C14, amended: they fail with ENOENT where no node on the way down to the
\* key is a file, with ENOTDIR where one is, and leave the store unchanged
\* either way.
C14_AbsentIsNoEntryOrNotDir ==
  last.op \in ReadingOps /\ last.fault = "none" /\ ~Present(last.pre, LastKey) =>
    /\ last.out = IF ThroughFile(last.pre, LastKey)
                    THEN FuseOSError("ENOTDIR")
                    ELSE FuseOSError("ENOENT")
    /\ last.calls = <<"read">>
    /\ store = last.pre

\* a getattr of a missing key whose parent directory is there
C14_Witness ==
  /\ last.op = "getattr" /\ ~Present(last.pre, LastKey)
  /\ LastKey # Root /\ ParentKey(LastKey) \in DOMAIN store
  /\ IsDirAt(store, ParentKey(LastKey))
  /\ last.out = FuseOSError("ENOENT")

\* the operations that carry the handle_etcd_errors decorator
DecoratedOps == {"getattr", "mkdir", "read", "readdir", "rmdir", "unlink", "write"}

\* the store's error codes: etcd's command, post form, raft, etcd and client
\* related errors
StoreCodes == (100..110) \cup (200..213) \cup {300, 301} \cup (400..403) \cup {500}

\* C15: the translation is a total function of the store error: each code of
\* the table gives its filesystem error, and every other store error, one
\* without an error code included, gives EINVAL.
C15_TranslationTotal ==
  /\ \A code \in StoreCodes :
       handle_etcd_errors(EtcdException(code)) = FuseOSError(SpecErrno(code))
  /\ last.op \in DecoratedOps /\ last.raised # 0 =>
       last.out = FuseOSError(SpecErrno(last.raised))

\* the store st without key
Without(st, key) == [k \in DOMAIN st \ {key} |-> st[k]]

\* C16: unlink of a directory fails with EISDIR and leaves the directory in
\* the store; unlink of a file removes exactly its key.
C16_UnlinkFilesOnly ==
  last.op = "unlink" /\ last.fault = "none" /\ LastKey \in DOMAIN last.pre =>
    IF last.pre[LastKey].dir
      THEN /\ last.out = FuseOSError("EISDIR")
           /\ store = last.pre
      ELSE /\ last.out = Ok(0)
           /\ store = Without(last.pre, LastKey)

\* the unlink of a directory without children is refused
C16_Witness ==
  /\ last.op = "unlink" /\ IsDirAt(last.pre, LastKey) /\ LastKey # Root
  /\ ChildKeys(last.pre, LastKey) = {}
  /\ last.out = FuseOSError("EISDIR")
  /\ LastKey \in DOMAIN store

\* the bytes of v from offset up to, not including, offset + size, as far
\* as v has them
Range(v, offset, size) ==
  [i \in 1..Max(0, Min(offset + size, Len(v)) - offset) |-> v[offset + i]]

\* C17: read of a file with value v returns v[offset, min(offset + size,
\* len(v))): at most size bytes, nothing when offset >= len(v), and never an
\* error.
C17_ReadSlices ==
  last.op = "read" /\ last.fault = "none" /\ IsFileAt(last.pre, LastKey) =>
    LET v == last.pre[LastKey].value
    IN  /\ last.out = Ok(Range(v, last.offset, last.size))
        /\ Len(last.out.ret) <= last.size
        /\ last.offset >= Len(v) => last.out.ret = <<>>
        /\ store = last.pre

\* a read from inside a value that ends before the value does
C17_Witness ==
  /\ last.op = "read" /\ IsFileAt(last.pre, LastKey)
  /\ last.offset > 0 /\ last.size > 0
  /\ last.offset + last.size < Len(last.pre[LastKey].value)
  /\ Len(last.out.ret) = last.size

\* C18: truncate of a file to the length it has issues the store read and no
\* store write and leaves the node as it is; to any other length it issues
\* one store read and then one store write.
C18_TruncateSameLength ==
  /\ last.op = "truncate" /\ last.fault = "none" /\ IsFileAt(last.pre, LastKey) =>
       IF Len(last.pre[LastKey].value) = last.length
         THEN /\ last.calls = <<"read">>
              /\ last.out = Ok(0)
              /\ store = last.pre
         ELSE last.calls = <<"read", "write">>
  /\ \A c \in Callers :
       pend[c].op = "truncate" => Len(pend[c].old) # pend[c].length

\* a truncate of a non-empty file to its own length
C18_Witness ==
  /\ last.op = "truncate" /\ IsFileAt(last.pre, LastKey)
  /\ last.length > 0
  /\ Len(last.pre[LastKey].value) = last.length
  /\ last.calls = <<"read">>

\* the sequences of store calls an operation may issue: at most two, a read
\* before the write or delete, none twice
CallOrders ==
  { <<>>, <<"read">>, <<"write">>, <<"delete">>, <<"read", "write">>,
    <<"read", "delete">> }

\* C19: an operation issues at most two store calls, the read first, none
\* repeated; a store call that fails ends the operation, with the
\* filesystem error of its code and without a further store call (a read
\* that failed leaves no operation in progress: the only operation in
\* progress without a node read is the write that found its key absent).
C19_CallsAndFailures ==
  /\ last.calls \in CallOrders
  /\ \A c \in Callers :
       pend[c].op # "idle" /\ ~pend[c].found =>
         pend[c].op = "write" /\ ~Present(store, SanitizeKey(path_to_key(pend[c].path)))
  /\ last.raised # 0 =>
       /\ last.out = FuseOSError(SpecErrno(last.raised))
       /\ store = last.pre

\* C20: an operation that ends in an error leaves the store as it was when
\* the operation started; a write at offset > 0 to a directory fails with
\* EISDIR after its store read, before any store write.
C20_ErrorsLeaveStore ==
  /\ last.op # "none" /\ last.out.kind # "ok" => store = last.pre
  /\ last.op = "write" /\ last.offset > 0 /\ last.fault = "none"
       /\ IsDirAt(last.pre, LastKey) =>
       /\ last.out = FuseOSError("EISDIR")
       /\ last.calls = <<"read">>
       /\ store = last.pre

\* a write at offset > 0 to a directory that has a child
C20_Witness ==
  /\ last.op = "write" /\ last.offset > 0
  /\ IsDirAt(last.pre, LastKey) /\ ChildKeys(last.pre, LastKey) # {}
  /\ last.out = FuseOSError("EISDIR")
  /\ store = last.pre

====
